---- MODULE Spec2Model ----
(***************************************************************************)
(* A model of the Trials Fusion .mdl extractor (src/mdl_tool.py): one      *)
(* decode session of parse_mdl_file over a byte-level container, and the   *)
(* pure geometry / face decoders and the OBJ writer; and the viewer        *)
(* (src/mdl_viewer.py) that runs such sessions and exports their OBJ.      *)
(*                                                                         *)
(* A container is a sequence of bytes (integers 0..255).  The cursor is    *)
(* the number of bytes consumed so far.  Python's f.read(n) returns at    *)
(* most n bytes and never fails on a short read; struct.unpack fails       *)
(* (struct.error) when it is handed fewer bytes than its format needs.     *)
(***************************************************************************)
EXTENDS Integers, Sequences, FiniteSets, TLC

VARIABLES
    file,             \* the bytes of the .mdl container given to the session
    lod_indices_arg,  \* the lod_indices argument: [none |-> TRUE] or a list
    skip_binary,      \* the skip_binary argument
    pc,               \* position of parse_mdl_file: start, select, loop, done, raised
    f_open,           \* whether the handle of `with open(filepath, 'rb') as f` is open
    pos,              \* the cursor of f
    lod_count,        \* header['lod_count'] once the header is parsed
    lod_indices,      \* the effective selection (after line 54 / 57)
    i,                \* number of iterations of the loop of line 62 already started
    reads,            \* one entry per call of read_lod_header, in call order
    written,          \* one entry per output file written, in write order
    err,              \* the exception parse_mdl_file raised, "none" if none
    diag,             \* the warnings logged so far
    records,          \* ghost: the records the container was built from, with offsets
    geometry_data,    \* mesh decoding: the decompressed geometry bytes
    face_data,        \* mesh decoding: the decompressed face bytes
    mesh,             \* mesh decoding: the decoded vertices, faces and OBJ lines
    mdl_file,         \* viewer: self.mdl_file, "" for None
    viewer_lod_count, \* viewer: self.lod_count
    current_lod,      \* viewer: self.current_lod
    obj_file,         \* viewer: self.obj_file, the k of temp_dir/lod_k.obj, -1 for None
    temp_dir,         \* viewer: the files in self.temp_dir
    exported,         \* viewer: what export_obj_file copied last
    disk              \* viewer: the bytes of the .mdl file at each path

vars == <<file, lod_indices_arg, skip_binary, pc, f_open, pos, lod_count,
          lod_indices, i, reads, written, err, diag, records,
          geometry_data, face_data, mesh,
          mdl_file, viewer_lod_count, current_lod, obj_file, temp_dir, exported,
          disk>>

sessionVars == <<file, lod_indices_arg, skip_binary, pc, f_open, pos, lod_count,
                 lod_indices, i, reads, written, err, diag, records>>

meshVars == <<geometry_data, face_data, mesh>>

viewerVars == <<mdl_file, viewer_lod_count, current_lod, obj_file, temp_dir, exported,
                disk>>

\* the viewer variables in the specifications without a viewer
ViewerIdle ==
    /\ mdl_file = ""
    /\ viewer_lod_count = 0
    /\ current_lod = 0
    /\ obj_file = -1
    /\ temp_dir = {}
    /\ exported = [done |-> FALSE, mdl_file |-> "", current_lod |-> 0,
                   copied |-> [name |-> -1, mdl |-> "", lines |-> <<>>]]
    /\ disk = <<>>

----------------------------------------------------------------------------
(* Bounds of the model.                                                    *)

\* most LOD records a generated container holds
MaxLods == 2
\* longest requested selection
MaxSel == 2
\* longest decompressed geometry byte string given to extract_vertices
MaxGeomLen == 44
\* longest decompressed face byte string given to extract_faces
MaxFaceLen == 13

----------------------------------------------------------------------------
(* Bytes and struct.unpack / struct.pack.                                  *)

Min(a, b) == IF a < b THEN a ELSE b

Abs(v) == IF v < 0 THEN 0 - v ELSE v

\* n copies of byte b (bytes * n)
Rep(b, n) == [k \in 1..n |-> b]

\* struct.unpack('b', bs): one signed byte
unpack_b(bs) == IF bs[1] >= 128 THEN bs[1] - 256 ELSE bs[1]

\* unpack_h reading the two bytes as unsigned ('<H' for '<h')
unpack_h_unsigned(bs) == bs[1] + 256 * bs[2]

\* struct.unpack('<h', bs): little-endian signed 16-bit
unpack_h(bs) == bs[1] + 256 * (IF bs[2] >= 128 THEN bs[2] - 256 ELSE bs[2])

\* struct.unpack('i', bs): little-endian signed 32-bit
unpack_i(bs) ==
    bs[1] + 256 * bs[2] + 65536 * bs[3]
          + 16777216 * (IF bs[4] >= 128 THEN bs[4] - 256 ELSE bs[4])

\* two's complement bytes of a signed 16-bit value, little-endian
pack_h(v) == LET u == IF v < 0 THEN v + 65536 ELSE v
             IN  <<u % 256, u \div 256>>

\* two's complement bytes of a small signed 32-bit value, little-endian
pack_i(v) ==
    IF v >= 0
    THEN <<v % 256, (v \div 256) % 256, (v \div 65536) % 256, v \div 16777216>>
    ELSE LET w == v + 16777216   \* -2^24 <= v < 0: the top byte is 255
         IN  <<w % 256, (w \div 256) % 256, w \div 65536, 255>>

\* one signed byte
pack_b(v) == <<IF v < 0 THEN v + 256 ELSE v>>

----------------------------------------------------------------------------
(* f.read(n) on a buffered binary file.                                    *)

\* the bytes f.read(n) returns at cursor p: at most n, all the rest for n = -1
ReadBytes(f, p, n) ==
    IF n = -1 THEN SubSeq(f, p + 1, Len(f))
    ELSE SubSeq(f, p + 1, Min(p + n, Len(f)))

\* f.read(n) raises ValueError for n < -1
ReadRaises(n) == n < -1

----------------------------------------------------------------------------
(* zlib.decompress, on zlib streams of one stored (uncompressed) deflate   *)
(* block: 78 01, 01, LEN, ~LEN, the data, Adler-32 big-endian.  Bytes      *)
(* after the end of the stream are ignored; a stream that ends early or    *)
(* whose header or checksum is wrong raises zlib.error.                    *)

RECURSIVE Sum(_, _, _)
\* data[lo] + ... + data[hi]
Sum(data, lo, hi) ==
    IF lo > hi THEN 0
    ELSE IF lo = hi THEN data[lo]
    ELSE LET mid == (lo + hi) \div 2
         IN  Sum(data, lo, mid) + Sum(data, mid + 1, hi)

\* the Adler-32 checksum of data (Len(data) < 4096), big-endian: the low half
\* is 1 + the sum of the bytes, the high half the sum of the low halves after
\* each byte, both modulo 65521
Adler32Bytes(data) ==
    LET n == Len(data)
        a == (1 + Sum(data, 1, n)) % 65521
        b == (n + Sum([k \in 1..n |-> (n - k + 1) * data[k]], 1, n)) % 65521
    IN  <<b \div 256, b % 256, a \div 256, a % 256>>

\* zlib.compress(data, 0) for Len(data) < 65536
Compress(data) ==
    LET n == Len(data)
    IN  <<120, 1, 1, n % 256, n \div 256, 255 - (n % 256), 255 - (n \div 256)>>
        \o data \o Adler32Bytes(data)

\* zlib.decompress(blob): [ok |-> TRUE, data |-> bytes] or [ok |-> FALSE] (zlib.error)
Decompress(blob) ==
    IF Len(blob) < 7 THEN [ok |-> FALSE, data |-> <<>>]
    ELSE IF blob[1] # 120 \/ blob[2] # 1 \/ blob[3] # 1
    THEN [ok |-> FALSE, data |-> <<>>]
    ELSE LET n == blob[4] + 256 * blob[5]
         IN  IF blob[6] # 255 - blob[4] \/ blob[7] # 255 - blob[5]
             THEN [ok |-> FALSE, data |-> <<>>]
             ELSE IF Len(blob) < 7 + n + 4
             THEN [ok |-> FALSE, data |-> <<>>]
             ELSE LET data == SubSeq(blob, 8, 7 + n)
                  IN  IF SubSeq(blob, 8 + n, 11 + n) # Adler32Bytes(data)
                      THEN [ok |-> FALSE, data |-> <<>>]
                      ELSE [ok |-> TRUE, data |-> data]

----------------------------------------------------------------------------
(* Floating point: x_int / 256.0 is exact in binary floating point, and    *)
(* has at most 8 decimal places (1/256 = 0.00390625).  A coordinate is     *)
(* kept as its exact decimal expansion: sign, integer part, 8 decimals.    *)

\* x_int / 256.0
DivBy256(v) ==
    [neg |-> v < 0, whole |-> Abs(v) \div 256, frac8 |-> (Abs(v) % 256) * 390625]

\* f"{x:.6f}": correctly rounded to 6 decimals, ties to even
Format6(x) ==
    LET q == x.frac8 \div 100
        r == x.frac8 % 100
        up == r > 50 \/ (r = 50 /\ q % 2 = 1)
    IN  [neg |-> x.neg, whole |-> x.whole, frac6 |-> IF up THEN q + 1 ELSE q]

----------------------------------------------------------------------------
(* extract_vertices, extract_faces, save_obj_file, save_binary_data.       *)

\* vertex_size of extract_vertices
vertex_size == 4 + 6 + 10

\* face_size of extract_faces
face_size == 2 * 3

\* Python's data[a:b] for 0 <= a <= b (a slice never fails, it comes back short)
Slice(data, a, b) == SubSeq(data, a + 1, Min(b, Len(data)))

\* the body of the while loop of extract_vertices at `offset`
VertexAt(g, offset) ==
    LET x_int == unpack_h(Slice(g, offset, offset + 2))
        y_int == unpack_h(Slice(g, offset + 2, offset + 4))
        z_int == unpack_h(Slice(g, offset + 4, offset + 6))
    IN  <<DivBy256(x_int), DivBy256(y_int), DivBy256(z_int)>>

RECURSIVE VertexLoop(_, _)
\* the while loop of extract_vertices, entered with `offset`
VertexLoop(g, offset) ==
    IF offset + vertex_size <= Len(g) + 4
    THEN <<VertexAt(g, offset)>> \o VertexLoop(g, offset + vertex_size)
    ELSE <<>>

\* extract_vertices starting at offset 0 instead of skipping 4 bytes
extract_vertices_no_prefix(g) == VertexLoop(g, 0)

extract_vertices(g) == VertexLoop(g, 4)

\* FaceAt without the + 1 of line 331
FaceAt_zero_based(fd, offset) ==
    <<unpack_h(SubSeq(fd, offset + 1, offset + 2)),
      unpack_h(SubSeq(fd, offset + 3, offset + 4)),
      unpack_h(SubSeq(fd, offset + 5, offset + 6))>>

\* the body of the while loop of extract_faces at `offset`
FaceAt(fd, offset) ==
    LET v1 == unpack_h(Slice(fd, offset, offset + 2))
        v2 == unpack_h(Slice(fd, offset + 2, offset + 4))
        v3 == unpack_h(Slice(fd, offset + 4, offset + 6))
    IN  <<v1 + 1, v2 + 1, v3 + 1>>

RECURSIVE FaceLoop(_, _)
\* the while loop of extract_faces, entered with `offset`
FaceLoop(fd, offset) ==
    IF offset + face_size <= Len(fd)
    THEN <<FaceAt(fd, offset)>> \o FaceLoop(fd, offset + face_size)
    ELSE <<>>

extract_faces(fd) == FaceLoop(fd, 0)

\* save_obj_file writing the faces before the vertices
save_obj_file_faces_first(vertices, faces, lod_index) ==
    <<[tag |-> "# OBJ file - LOD", n |-> <<lod_index>>],
      [tag |-> "# Vertices:", n |-> <<Len(vertices)>>],
      [tag |-> "# Faces:", n |-> <<Len(faces)>>],
      [tag |-> "", n |-> <<>>]>>
    \o [k \in 1..Len(faces) |-> [tag |-> "f", n |-> faces[k]]]
    \o [k \in 1..Len(vertices) |->
          [tag |-> "v", n |-> <<Format6(vertices[k][1]), Format6(vertices[k][2]),
                                Format6(vertices[k][3])>>]]

\* the lines save_obj_file writes: three comment lines, a blank line, one
\* "v" line per vertex, one "f" line per face
save_obj_file(vertices, faces, lod_index) ==
    <<[tag |-> "# OBJ file - LOD", n |-> <<lod_index>>],
      [tag |-> "# Vertices:", n |-> <<Len(vertices)>>],
      [tag |-> "# Faces:", n |-> <<Len(faces)>>],
      [tag |-> "", n |-> <<>>]>>
    \o [k \in 1..Len(vertices) |->
          [tag |-> "v", n |-> <<Format6(vertices[k][1]), Format6(vertices[k][2]),
                                Format6(vertices[k][3])>>]]
    \o [k \in 1..Len(faces) |-> [tag |-> "f", n |-> faces[k]]]

\* the bytes save_binary_data writes
save_binary_data(g, fd) == g \o fd

----------------------------------------------------------------------------
(* parse_header and read_lod_header: the sequential reads at the cursor.   *)

\* OBJ_SIGNATURE = b'OBJ'
OBJ_SIGNATURE == <<79, 66, 74>>

\* parse_header taking a short read for a zero instead of raising
parse_header_no_check(f, p) ==
    LET count == ReadBytes(f, p + 19, 4)
    IN  [ok |-> TRUE, exc |-> "none", pos |-> Min(p + 23, Len(f)),
         lod_count |-> IF Len(count) = 4 THEN unpack_i(count) ELSE 0,
         warn |-> ReadBytes(f, p, 3) # OBJ_SIGNATURE]

\* parse_header(f) with the cursor at p: the 3+1+5+4+1+5+4 byte reads in
\* order; struct.unpack('i', ...) raises struct.error on fewer than 4 bytes
parse_header(f, p) ==
    LET signature == ReadBytes(f, p, 3)
        p1 == p + Len(signature)
        marker1 == ReadBytes(f, p1, 1)
        p2 == p1 + Len(marker1)
        version == ReadBytes(f, p2, 5)
        p3 == p2 + Len(version)
        unknown1 == ReadBytes(f, p3, 4)
        p4 == p3 + Len(unknown1)
        marker2 == ReadBytes(f, p4, 1)
        p5 == p4 + Len(marker2)
        lrs01 == ReadBytes(f, p5, 5)
        p6 == p5 + Len(lrs01)
        count == ReadBytes(f, p6, 4)
        p7 == p6 + Len(count)
    IN  IF Len(unknown1) # 4
        THEN [ok |-> FALSE, exc |-> "struct.error", pos |-> p4,
              lod_count |-> 0, warn |-> FALSE]
        ELSE IF Len(count) # 4
        THEN [ok |-> FALSE, exc |-> "struct.error", pos |-> p7,
              lod_count |-> 0, warn |-> FALSE]
        ELSE [ok |-> TRUE, exc |-> "none", pos |-> p7,
              lod_count |-> unpack_i(count), warn |-> signature # OBJ_SIGNATURE]

\* unknown_data3_len without the 2 extra bytes
unknown_data3_len_no_tail(four_byte_value_count) == four_byte_value_count * 4

\* the number of bytes read for the trailing block of read_lod_header
unknown_data3_len(four_byte_value_count) == four_byte_value_count * 4 + 2

\* struct.calcsize(fmt)
calcsize(fmt) ==
    CASE fmt = "fff" -> 12 [] fmt = "i" -> 4 [] fmt = "h" -> 2 [] fmt = "b" -> 1

\* struct.unpack(fmt, bs)[0] for Len(bs) = calcsize(fmt); the three floats
\* of 'fff' are never used and are not decoded
unpack(fmt, bs) ==
    CASE fmt = "fff" -> 0
      [] fmt = "i" -> unpack_i(bs)
      [] fmt = "h" -> unpack_h(bs)
      [] fmt = "b" -> unpack_b(bs)

\* read_lod_header as it starts on f with the cursor at p: nothing read yet.
\* `lens` collects <<declared length, bytes returned>> of the length-prefixed
\* reads; the other fields are the entries of lod_data the model uses.
LodStart(f, p) ==
    [f |-> f, ok |-> TRUE, exc |-> "none", pos |-> p, lens |-> <<>>,
     string_length |-> 0, id_string_length |-> 0, four_byte_value_count |-> 0,
     compressed_geometry_data_len |-> 0, compressed_face_data_len |-> 0,
     unknown2 |-> 0, vec3 |-> 0,
     compressed_geometry_data |-> <<>>, compressed_face_data |-> <<>>]

\* lod_data[...] = f.read(n) for a fixed n: a short read is kept as it comes
ReadFixed(st, n) ==
    IF ~st.ok THEN st
    ELSE [st EXCEPT !.pos = @ + Len(ReadBytes(st.f, st.pos, n))]

\* lod_data[field] = struct.unpack(fmt, f.read(calcsize(fmt)))[0]: struct.error
\* when fewer bytes come back
ReadUnpack(st, fmt, field) ==
    IF ~st.ok THEN st
    ELSE LET bs == ReadBytes(st.f, st.pos, calcsize(fmt))
         IN  IF Len(bs) # calcsize(fmt)
             THEN [st EXCEPT !.ok = FALSE, !.exc = "struct.error",
                             !.pos = @ + Len(bs)]
             ELSE [st EXCEPT !.pos = @ + Len(bs), ![field] = unpack(fmt, bs)]

\* lod_data[field] = f.read(n) for a length n read from the file (field is
\* "" when the model does not use the bytes): ValueError for n < -1,
\* otherwise whatever comes back, short or not
ReadSized(st, n, field) ==
    IF ~st.ok THEN st
    ELSE IF ReadRaises(n) THEN [st EXCEPT !.ok = FALSE, !.exc = "ValueError"]
    ELSE LET bs == ReadBytes(st.f, st.pos, n)
             st2 == [st EXCEPT !.pos = @ + Len(bs),
                               !.lens = Append(@, <<n, Len(bs)>>)]
         IN  IF field = "" THEN st2 ELSE [st2 EXCEPT ![field] = bs]

\* lod_data[field] = f.read(lod_data[len_field]), the length read just before
ReadField(st, len_field, field) == ReadSized(st, st[len_field], field)

\* lod_data['unknown_data3'] = f.read(four_byte_value_count * 4 + 2)
ReadTrailing(st) == ReadSized(st, unknown_data3_len(st.four_byte_value_count), "")

\* read_lod_header(f) with the cursor at p, one step per read of lines 182-227
read_lod_header(f, p) ==
    LET s1 == ReadFixed(LodStart(f, p), 1)                           \* lod_marker
        s2 == ReadFixed(s1, 5)                                       \* lr005
        s3 == ReadUnpack(s2, "fff", "vec3")                          \* unknown_vec3
        s4 == ReadUnpack(s3, "i", "string_length")
        s5 == ReadField(s4, "string_length", "")                     \* string_data
        s6 == ReadFixed(s5, 56)                                      \* unknown_data1
        s7 == ReadUnpack(s6, "h", "id_string_length")
        s8 == ReadField(s7, "id_string_length", "")                  \* id_string
        s9 == ReadFixed(s8, 7)                                       \* unknown_data2
        s10 == ReadUnpack(s9, "b", "four_byte_value_count")
        s11 == ReadTrailing(s10)                                     \* unknown_data3
        s12 == ReadUnpack(s11, "i", "compressed_geometry_data_len")
        s13 == ReadField(s12, "compressed_geometry_data_len",
                         "compressed_geometry_data")
        s14 == ReadUnpack(s13, "i", "unknown2")
        s15 == ReadUnpack(s14, "i", "compressed_face_data_len")
    IN  ReadField(s15, "compressed_face_data_len", "compressed_face_data")

----------------------------------------------------------------------------
(* The containers the session is run on: a header followed by LOD records  *)
(* laid out as parse_header and read_lod_header read them, whole or        *)
(* damaged.                                                                *)

\* the 23 bytes of a file header with the given signature and lod_count
HeaderBytes(sig, lc) ==
    sig \o <<0>> \o <<86, 69, 82, 48, 49>> \o pack_i(7) \o <<0>>
        \o <<76, 82, 83, 48, 49>> \o pack_i(lc)

\* the bytes of one LOD record: name of r.n bytes, identifier of r.m bytes,
\* count r.cnt, blobs r.g and r.f; r.extra is added to the declared face length
RecordBytes(r) ==
    <<1>> \o <<76, 82, 48, 48, 53>> \o Rep(0, 12)
        \o pack_i(r.n) \o Rep(110, r.n)
        \o Rep(117, 56)
        \o pack_h(r.m) \o Rep(105, r.m)
        \o Rep(119, 7)
        \o pack_b(r.cnt) \o Rep(116, 4 * r.cnt + 2)
        \o pack_i(Len(r.g)) \o r.g
        \o pack_i(9)
        \o pack_i(Len(r.f) + r.extra) \o r.f

\* decompressed geometry of a record: the 4-byte prefix and one vertex record
GeoA == <<1, 2, 3, 4>> \o pack_h(256) \o pack_h(512) \o pack_h(-256) \o Rep(0, 10)

\* decompressed geometry of a record: the prefix and two 16-byte vertex records
GeoB == <<1, 2, 3, 4>> \o pack_h(32767) \o pack_h(-32768) \o pack_h(1) \o Rep(7, 10)
                       \o pack_h(-1) \o pack_h(128) \o pack_h(640) \o Rep(9, 10)

\* decompressed faces of a record
FaceA == pack_h(0) \o pack_h(0) \o pack_h(0)

FaceB == pack_h(0) \o pack_h(1) \o pack_h(2) \o pack_h(-1) \o pack_h(5) \o pack_h(32767)

\* a blob zlib.decompress rejects: the stream header is overwritten
Corrupt(blob) == <<0>> \o Tail(blob)

RecordKinds == {"plain", "named", "badgeo", "badface"}

\* the record of each kind: its name and identifier lengths, its count, and
\* its compressed geometry and face blobs
RecordTable ==
    [k \in RecordKinds |->
        CASE k = "plain"   -> [n |-> 0, m |-> 0, cnt |-> 0, extra |-> 0,
                               g |-> Compress(GeoA), f |-> Compress(FaceA)]
          [] k = "named"   -> [n |-> 2, m |-> 1, cnt |-> 1, extra |-> 0,
                               g |-> Compress(GeoB), f |-> Compress(FaceB)]
          [] k = "badgeo"  -> [n |-> 0, m |-> 0, cnt |-> 0, extra |-> 0,
                               g |-> Corrupt(Compress(GeoB)), f |-> Compress(FaceA)]
          [] k = "badface" -> [n |-> 1, m |-> 0, cnt |-> 0, extra |-> 0,
                               g |-> Compress(GeoA), f |-> Corrupt(Compress(FaceB))]]

RecordOfKind(k) == RecordTable[k]

\* the bytes of the record of each kind
RecordBytesTable == [k \in RecordKinds |-> RecordBytes(RecordTable[k])]

RECURSIVE KindSeqs(_)
\* the sequences of at most n record kinds
KindSeqs(n) ==
    IF n = 0 THEN {<<>>}
    ELSE LET shorter == KindSeqs(n - 1)
         IN  shorter \cup {Append(ks, k) : ks \in shorter, k \in RecordKinds}

RECURSIVE Layout(_, _)
\* the records of kinds ks laid out from offset `at`: each with its first
\* offset, the offset after its last byte, and its bytes
Layout(ks, at) ==
    IF ks = <<>> THEN <<>>
    ELSE LET r == RecordOfKind(Head(ks))
             bs == RecordBytesTable[Head(ks)]
         IN  <<[kind |-> Head(ks), start |-> at, end |-> at + Len(bs),
                desc |-> r, bytes |-> bs]>>
             \o Layout(Tail(ks), at + Len(bs))

RECURSIVE Concat(_)
Concat(lay) == IF lay = <<>> THEN <<>> ELSE Head(lay).bytes \o Concat(Tail(lay))

\* how a container is damaged
Damages == {"none", "overshoot", "cut_face", "cut_geometry", "cut_trailing",
            "cut_id", "cut_name", "cut_header"}

\* the length a container of layout `lay` is cut to by damage d: the last
\* byte of the named field of the last record is missing
CutLength(lay, d) ==
    LET last == lay[Len(lay)]
        r == last.desc
        name_end == last.start + 22 + r.n
        id_end == name_end + 58 + r.m
        trailing_end == id_end + 8 + 4 * r.cnt + 2
        geometry_end == trailing_end + 4 + Len(r.g)
    IN  CASE d = "cut_face"     -> last.end - 1
          [] d = "cut_geometry" -> geometry_end - 1
          [] d = "cut_trailing" -> trailing_end - 1
          [] d = "cut_id"       -> id_end - 1
          [] d = "cut_name"     -> name_end - 1

\* what the model keeps of a laid out record: its kind, its first offset, the
\* offset after its last byte and its declared lengths
RecordInfo(e) ==
    [kind |-> e.kind, start |-> e.start, end |-> e.end,
     n |-> e.desc.n, m |-> e.desc.m, cnt |-> e.desc.cnt,
     glen |-> Len(e.desc.g), flen |-> Len(e.desc.f) + e.desc.extra,
     extra |-> e.desc.extra]

RECURSIVE Infos(_)
\* RecordInfo of every record of a layout
Infos(lay) == IF lay = <<>> THEN <<>> ELSE <<RecordInfo(Head(lay))>> \o Infos(Tail(lay))

\* the record of kind k declaring a face length 3 bytes beyond its blob
OverRecord(k) == [RecordOfKind(k) EXCEPT !.extra = 3]

\* the layout `lay` with its last record (number n) declaring too long a face blob
Overshoot(lay, n) ==
    [lay EXCEPT ![n].bytes = RecordBytes(OverRecord(lay[n].kind)),
                ![n].desc = OverRecord(lay[n].kind)]

\* the container of bytes `whole` laid out as `lay`, cut as damage d says
Cut(whole, lay, d) ==
    IF d \in {"none", "overshoot"} THEN [bytes |-> whole, records |-> Infos(lay)]
    ELSE IF d = "cut_header" THEN [bytes |-> SubSeq(whole, 1, 22), records |-> <<>>]
    ELSE [bytes |-> SubSeq(whole, 1, CutLength(lay, d)), records |-> Infos(lay)]

\* the container of header bytes hdr followed by the records of `lay`
Built(hdr, lay, d) == Cut(hdr \o Concat(lay), lay, d)

\* the container: [bytes, records] for header lod_count lc, kinds ks, damage d
Container(sig, lc, ks, d) ==
    IF d = "overshoot"
    THEN Built(HeaderBytes(sig, lc), Overshoot(Layout(ks, 23), Len(ks)), d)
    ELSE Built(HeaderBytes(sig, lc), Layout(ks, 23), d)

\* the sequences of at most MaxLods kinds of records whose blobs decompress
SoundKindSeqs == {ks \in KindSeqs(MaxLods) : \A k \in 1..Len(ks) : ks[k] \in {"plain", "named"}}

\* the files that end inside the 23 bytes of the header, the empty file included
ShortContainers ==
    {[bytes |-> SubSeq(HeaderBytes(OBJ_SIGNATURE, 1), 1, L), records |-> <<>>] :
        L \in 0..22}

\* the kind sequences of the damaged containers: at most MaxLods records
\* whose blobs decompress, all but the last one plain
DamagedKindSeqs ==
    {ks \in SoundKindSeqs : ks # <<>> /\ \A k \in 1..(Len(ks) - 1) : ks[k] = "plain"}

\* the containers of the model: whole ones with the number of their records
\* as header count; of records whose blobs decompress, whole ones with a
\* header count of one, or of one more than the most records; without records
\* or with one, a header count of -1, 0 or 10001, or another signature;
\* damaged ones; and the short files
Containers ==
    {Container(OBJ_SIGNATURE, Len(ks), ks, "none") : ks \in KindSeqs(MaxLods)}
    \cup {Container(OBJ_SIGNATURE, lc, ks, "none") :
            ks \in SoundKindSeqs, lc \in {1, MaxLods + 1}}
    \cup {Container(OBJ_SIGNATURE, lc, ks, "none") :
            ks \in {<<>>, <<"plain">>}, lc \in {-1, 0, 10001}}
    \cup {Container(<<79, 66, 75>>, Len(ks), ks, "none") :
            ks \in {<<>>, <<"plain">>, <<"named">>}}
    \cup {Container(OBJ_SIGNATURE, Len(ks), ks, d) :
            ks \in DamagedKindSeqs, d \in Damages \ {"none", "cut_header"}}
    \cup {Container(OBJ_SIGNATURE, 0, <<>>, "cut_header")}
    \cup ShortContainers

RECURSIVE SeqsUpTo(_, _)
\* the sequences over S of length at most n
SeqsUpTo(S, n) ==
    IF n = 0 THEN {<<>>}
    ELSE LET shorter == SeqsUpTo(S, n - 1)
         IN  shorter \cup {Append(q, x) : q \in shorter, x \in S}

\* the lod_indices arguments: None (no -l option) or a list
Selections ==
    {[none |-> TRUE, list |-> <<>>]}
    \cup {[none |-> FALSE, list |-> q] : q \in SeqsUpTo(-1..MaxLods, MaxSel)}

----------------------------------------------------------------------------
(* The decode session: parse_mdl_file.                                     *)

\* the mesh of the mesh-decoding specification before it is decoded, for LOD k
NoMesh(k) == [done |-> FALSE, lod_index |-> k, vertices |-> <<>>, faces |-> <<>>,
              lines |-> <<>>]

Init ==
    /\ \E c \in Containers : file = c.bytes /\ records = c.records
    /\ lod_indices_arg \in Selections
    /\ skip_binary \in BOOLEAN
    /\ pc = "start"
    /\ f_open = FALSE
    /\ pos = 0
    /\ lod_count = 0
    /\ lod_indices = <<>>
    /\ i = 0
    /\ reads = <<>>
    /\ written = <<>>
    /\ err = "none"
    /\ diag = {}
    /\ geometry_data = <<>>
    /\ face_data = <<>>
    /\ mesh = NoMesh(0)
    /\ ViewerIdle

\* lines 43-49: open the file, parse_header, log it, make the output directory.
\* An exception leaves the with block, which closes the file, and is re-raised.
ParseHeader ==
    /\ pc = "start"
    /\ LET h == parse_header(file, 0)
       IN  /\ pos' = h.pos
           /\ IF h.ok
              THEN /\ f_open' = TRUE
                   /\ lod_count' = h.lod_count
                   /\ diag' = IF h.warn THEN diag \cup {"Unexpected file signature"}
                              ELSE diag
                   /\ pc' = "select"
                   /\ err' = err
              ELSE /\ f_open' = FALSE
                   /\ lod_count' = lod_count
                   /\ diag' = diag
                   /\ pc' = "raised"
                   /\ err' = h.exc
    /\ UNCHANGED <<file, lod_indices_arg, skip_binary, lod_indices, i, reads,
                   written, records, meshVars, viewerVars>>

\* ValidIndex with the upper bound included
ValidIndex_inclusive(k, lc) == 0 <= k /\ k <= lc

\* line 57: 0 <= i < lod_count
ValidIndex(k, lc) == 0 <= k /\ k < lc

\* EffectiveSelection taking list(range(lod_count + 1)) when no list is given
EffectiveSelection_one_more(arg, lc) ==
    IF arg.none THEN [k \in 1..(lc + 1) |-> k - 1]
    ELSE SelectSeq(arg.list, LAMBDA k : ValidIndex(k, lc))

\* lines 53-57: the selection the loop runs over
EffectiveSelection(arg, lc) ==
    IF arg.none THEN [k \in 1..lc |-> k - 1]
    ELSE SelectSeq(arg.list, LAMBDA k : ValidIndex(k, lc))

\* lines 51-59: determine which LODs to process
SelectLods ==
    /\ pc = "select"
    /\ LET sel == EffectiveSelection(lod_indices_arg, lod_count)
       IN  IF ~lod_indices_arg.none /\ sel = <<>>
           THEN /\ err' = "MDLParseError: No valid LOD indices specified"
                /\ pc' = "raised"
                /\ f_open' = FALSE
                /\ lod_indices' = sel
           ELSE /\ err' = err
                /\ pc' = "loop"
                /\ f_open' = f_open
                /\ lod_indices' = sel
    /\ UNCHANGED <<file, lod_indices_arg, skip_binary, pos, lod_count, i, reads,
                   written, diag, records, meshVars, viewerVars>>

\* the entry of `reads` for the call of read_lod_header that returned hd
ReadEntry(sel, lod_index, start, hd) ==
    [sel |-> sel, lod_index |-> lod_index, start |-> start, end |-> hd.pos,
     ok |-> hd.ok, exc |-> hd.exc, lens |-> hd.lens,
     string_length |-> hd.string_length,
     id_string_length |-> hd.id_string_length,
     four_byte_value_count |-> hd.four_byte_value_count,
     compressed_geometry_data_len |-> hd.compressed_geometry_data_len,
     compressed_face_data_len |-> hd.compressed_face_data_len]

\* the files process_lod writes for lod_index (lines 150-163)
OutputFiles(sel, lod_index, start, g, fd, skip) ==
    LET vertices == extract_vertices(g)
        faces == extract_faces(fd)
        obj == [kind |-> "obj", lod_index |-> lod_index, sel |-> sel, src |-> start,
                vertices |-> vertices, faces |-> faces,
                lines |-> save_obj_file(vertices, faces, lod_index), data |-> <<>>]
        bin == [kind |-> "bin", lod_index |-> lod_index, sel |-> sel, src |-> start,
                vertices |-> <<>>, faces |-> <<>>,
                lines |-> <<>>, data |-> save_binary_data(g, fd)]
    IN  IF skip THEN <<obj>> ELSE <<obj, bin>>

\* what the operating system does to the open(..., 'w') calls of one
\* process_lod: all succeed, or the one of save_obj_file (line 349) or the one
\* of save_binary_data (line 376, reached only without skip_binary) raises
\* OSError
WriteOutcomes(skip) == IF skip THEN {"ok", "obj_fails"} ELSE {"ok", "obj_fails", "bin_fails"}

\* the files of `files` that exist after the write outcome io
FilesWritten(files, io) ==
    CASE io = "ok" -> files
      [] io = "obj_fails" -> <<>>
      [] io = "bin_fails" -> SubSeq(files, 1, 1)

\* ProcessLod with a failed decompression logged and skipped instead of raised
ProcessLod_skip_failed ==
    /\ pc = "loop"
    /\ i < Len(lod_indices)
    /\ LET lod_index == lod_indices[i + 1]
           hd == read_lod_header(file, pos)
           g == Decompress(hd.compressed_geometry_data)
           fd == Decompress(hd.compressed_face_data)
       IN  /\ reads' = Append(reads, ReadEntry(i + 1, lod_index, pos, hd))
           /\ pos' = hd.pos
           /\ i' = i + 1
           /\ IF ~hd.ok
              THEN /\ err' = hd.exc
                   /\ pc' = "raised"
                   /\ f_open' = FALSE
                   /\ written' = written
              ELSE IF ~g.ok \/ ~fd.ok
              THEN /\ err' = err
                   /\ pc' = pc
                   /\ f_open' = f_open
                   /\ written' = written
              ELSE \E io \in WriteOutcomes(skip_binary) :
                   LET files == OutputFiles(i + 1, lod_index, pos,
                                            g.data, fd.data, skip_binary)
                   IN  /\ err' = IF io = "ok" THEN err ELSE "OSError"
                       /\ pc' = IF io = "ok" THEN pc ELSE "raised"
                       /\ f_open' = IF io = "ok" THEN f_open ELSE FALSE
                       /\ written' = written \o FilesWritten(files, io)
    /\ UNCHANGED <<file, lod_indices_arg, skip_binary, lod_count, lod_indices,
                   diag, records, meshVars, viewerVars>>

\* ProcessLod with an exception logged and the loop carried on
ProcessLod_continue_after_error ==
    /\ pc = "loop"
    /\ i < Len(lod_indices)
    /\ LET lod_index == lod_indices[i + 1]
           hd == read_lod_header(file, pos)
           g == Decompress(hd.compressed_geometry_data)
           fd == Decompress(hd.compressed_face_data)
       IN  /\ reads' = Append(reads, ReadEntry(i + 1, lod_index, pos, hd))
           /\ pos' = hd.pos
           /\ i' = i + 1
           /\ pc' = pc
           /\ f_open' = f_open
           /\ IF ~hd.ok
              THEN err' = hd.exc /\ written' = written
              ELSE IF ~g.ok \/ ~fd.ok
              THEN err' = "MDLParseError: Failed to decompress data" /\ written' = written
              ELSE \E io \in WriteOutcomes(skip_binary) :
                   LET files == OutputFiles(i + 1, lod_index, pos,
                                            g.data, fd.data, skip_binary)
                   IN  /\ err' = IF io = "ok" THEN err ELSE "OSError"
                       /\ written' = written \o FilesWritten(files, io)
    /\ UNCHANGED <<file, lod_indices_arg, skip_binary, lod_count, lod_indices,
                   diag, records, meshVars, viewerVars>>

\* lines 62-64 and process_lod: one iteration of the loop over lod_indices.
\* Any exception (struct.error or ValueError of read_lod_header, the
\* MDLParseError of line 167, the OSError of a failed open for writing)
\* leaves the with block, which closes f, and is re-raised by lines 68-79.
ProcessLod ==
    /\ pc = "loop"
    /\ i < Len(lod_indices)
    /\ LET lod_index == lod_indices[i + 1]
           hd == read_lod_header(file, pos)
           g == Decompress(hd.compressed_geometry_data)
           fd == Decompress(hd.compressed_face_data)
       IN  /\ reads' = Append(reads, ReadEntry(i + 1, lod_index, pos, hd))
           /\ pos' = hd.pos
           /\ i' = i + 1
           /\ IF ~hd.ok
              THEN /\ err' = hd.exc
                   /\ pc' = "raised"
                   /\ f_open' = FALSE
                   /\ written' = written
              ELSE IF ~g.ok \/ ~fd.ok
              THEN /\ err' = "MDLParseError: Failed to decompress data"
                   /\ pc' = "raised"
                   /\ f_open' = FALSE
                   /\ written' = written
              ELSE \E io \in WriteOutcomes(skip_binary) :
                   LET files == OutputFiles(i + 1, lod_index, pos,
                                            g.data, fd.data, skip_binary)
                   IN  /\ err' = IF io = "ok" THEN err ELSE "OSError"
                       /\ pc' = IF io = "ok" THEN pc ELSE "raised"
                       /\ f_open' = IF io = "ok" THEN f_open ELSE FALSE
                       /\ written' = written \o FilesWritten(files, io)
    /\ UNCHANGED <<file, lod_indices_arg, skip_binary, lod_count, lod_indices,
                   diag, records, meshVars, viewerVars>>

\* Complete without the close of f at the end of the with block
Complete_no_close ==
    /\ pc = "loop"
    /\ i = Len(lod_indices)
    /\ pc' = "done"
    /\ UNCHANGED <<file, lod_indices_arg, skip_binary, f_open, pos, lod_count,
                   lod_indices, i, reads, written, err, diag, records, meshVars,
                   viewerVars>>

\* lines 62-66: the loop is over, the with block closes the file
Complete ==
    /\ pc = "loop"
    /\ i = Len(lod_indices)
    /\ pc' = "done"
    /\ f_open' = FALSE
    /\ UNCHANGED <<file, lod_indices_arg, skip_binary, pos, lod_count, lod_indices,
                   i, reads, written, err, diag, records, meshVars, viewerVars>>

Next == ParseHeader \/ SelectLods \/ ProcessLod \/ Complete

Spec == Init /\ [][Next]_vars

----------------------------------------------------------------------------
(* Mesh decoding alone: lines 150-158 of process_lod applied to            *)
(* decompressed geometry and face byte strings of every length up to the   *)
(* bounds.                                                                 *)

\* signed 16-bit values the byte strings are made of, boundaries included
GeomWords == <<32767, -32768, 256, 512, -256, 1, -1, 0, 255, -255, 128>>

FaceWords == <<0, 1, 2, -1, 5, 32767, -32768>>

\* byte j (from 1) of the little-endian words table[s+1], table[s+2], ... (cyclic)
WordByte(table, s, j) ==
    pack_h(table[((s + (j - 1) \div 2) % Len(table)) + 1])[((j - 1) % 2) + 1]

\* a geometry byte string of length L: 4 prefix bytes, then words from GeomWords
GeomInput(L, s) == [j \in 1..L |-> IF j <= 4 THEN j ELSE WordByte(GeomWords, s, j - 4)]

\* a face byte string of length L
FaceInput(L, s) == [j \in 1..L |-> WordByte(FaceWords, s, j)]

InitMesh ==
    /\ geometry_data \in {GeomInput(L, s) : L \in 0..MaxGeomLen, s \in 0..2}
    /\ face_data \in {FaceInput(L, s) : L \in 0..MaxFaceLen, s \in {0, 3}}
    /\ mesh \in {NoMesh(k) : k \in 0..1}
    /\ file = <<>>
    /\ records = <<>>
    /\ lod_indices_arg = [none |-> TRUE, list |-> <<>>]
    /\ skip_binary = TRUE
    /\ pc = "mesh"
    /\ f_open = FALSE
    /\ pos = 0
    /\ lod_count = 0
    /\ lod_indices = <<>>
    /\ i = 0
    /\ reads = <<>>
    /\ written = <<>>
    /\ err = "none"
    /\ diag = {}
    /\ ViewerIdle

\* lines 150-158 of process_lod: extract_vertices, extract_faces, save_obj_file
DecodeMesh ==
    /\ pc = "mesh"
    /\ ~mesh.done
    /\ LET vertices == extract_vertices(geometry_data)
           faces == extract_faces(face_data)
       IN  mesh' = [done |-> TRUE, lod_index |-> mesh.lod_index,
                    vertices |-> vertices, faces |-> faces,
                    lines |-> save_obj_file(vertices, faces, mesh.lod_index)]
    /\ UNCHANGED <<sessionVars, geometry_data, face_data, viewerVars>>

NextMesh == DecodeMesh

SpecMesh == InitMesh /\ [][NextMesh]_vars

----------------------------------------------------------------------------
(* The viewer: BasicMDLViewer of src/mdl_viewer.py.  Each of its handlers   *)
(* runs to its end before the next event; load_lod runs a whole decode     *)
(* session of mdl_tool.parse_mdl_file on the file on disk.                 *)

\* lines 150-163 of process_lod once both blobs went through decompress_data
LodFiles(end, g, fd, p, k, lod_index, skip) ==
    IF ~g.ok \/ ~fd.ok THEN [ok |-> FALSE, pos |-> end, files |-> <<>>]
    ELSE [ok |-> TRUE, pos |-> end,
          files |-> OutputFiles(k, lod_index, p, g.data, fd.data, skip)]

\* lines 134-167 of process_lod once read_lod_header returned hd or raised
LodResult(hd, p, k, lod_index, skip) ==
    IF ~hd.ok THEN [ok |-> FALSE, pos |-> hd.pos, files |-> <<>>]
    ELSE LodFiles(hd.pos, Decompress(hd.compressed_geometry_data),
                  Decompress(hd.compressed_face_data), p, k, lod_index, skip)

\* process_lod for entry k of the selection with the cursor at p, every open
\* for writing succeeding: whether it returned, the cursor, the files written
process_lod(bytes, p, k, lod_index, skip) ==
    LodResult(read_lod_header(bytes, p), p, k, lod_index, skip)

RECURSIVE ProcessLods(_, _, _, _, _)
RECURSIVE ProcessRest(_, _, _, _, _)
\* the files the loop of lines 62-64 writes from entry k of sel on, with the
\* cursor at p; an exception ends the loop
ProcessLods(bytes, p, sel, k, skip) ==
    IF k > Len(sel) THEN <<>>
    ELSE ProcessRest(bytes, process_lod(bytes, p, k, sel[k], skip), sel, k, skip)

\* the loop after entry k gave the result r
ProcessRest(bytes, r, sel, k, skip) ==
    IF ~r.ok THEN <<>>
    ELSE r.files \o ProcessLods(bytes, r.pos, sel, k + 1, skip)

\* the files one call of parse_mdl_file leaves in its output directory,
\* whether it returns or raises
parse_mdl_file(bytes, arg, skip) ==
    LET h == parse_header(bytes, 0)
    IN  IF ~h.ok THEN <<>>
        ELSE ProcessLods(bytes, h.pos, EffectiveSelection(arg, h.lod_count), 1, skip)

\* the paths the file dialog of open_mdl_file can return
ViewerFiles == {"first.mdl", "second.mdl", "empty.mdl", "short.mdl", "bad.mdl"}

\* the records of the file at a path: two files of two LODs, one whose only
\* geometry blob does not decompress, the others without records
DiskKinds(path) ==
    CASE path = "first.mdl"  -> <<"named", "plain">>
      [] path = "second.mdl" -> <<"plain", "named">>
      [] path = "bad.mdl"    -> <<"badgeo">>
      [] OTHER               -> <<>>

\* the bytes of the file at a path: empty.mdl has lod_count = 0, short.mdl
\* ends inside the header
Disk(path) ==
    IF path = "short.mdl" THEN SubSeq(HeaderBytes(OBJ_SIGNATURE, 1), 1, 10)
    ELSE Container(OBJ_SIGNATURE, Len(DiskKinds(path)), DiskKinds(path), "none").bytes

\* the temporary directory holding the files a session on mf wrote: each is
\* kept as its k of lod_k.obj, the path it was extracted from, and its lines
TempFiles(mf, files) ==
    {[name |-> files[j].lod_index, mdl |-> mf, lines |-> files[j].lines] :
        j \in 1..Len(files)}

\* lines 522-525 of load_lod: obj_file is set only if lod_<lod_index>.obj exists
Loaded(lod_index, of, td) ==
    [obj_file |-> IF \E e \in td : e.name = lod_index THEN lod_index ELSE of,
     temp_dir |-> td]

\* load_lod(lod_index) with self.mdl_file = mf, self.obj_file = of and the
\* temporary directory holding td: the new obj_file and directory.  The
\* directory is emptied, the session run with lod_indices=[lod_index] and
\* skip_binary=True, and its exception swallowed.
load_lod(mf, lod_index, of, td) ==
    IF mf = "" THEN [obj_file |-> of, temp_dir |-> td]
    ELSE Loaded(lod_index, of,
                TempFiles(mf, parse_mdl_file(disk[mf],
                                             [none |-> FALSE, list |-> <<lod_index>>],
                                             TRUE)))

\* the assignments of a handler that set current_lod and ran load_lod with result r
SetLod(lod_index, r) ==
    /\ current_lod' = lod_index
    /\ obj_file' = r.obj_file
    /\ temp_dir' = r.temp_dir

InitViewer ==
    /\ mdl_file = ""
    /\ viewer_lod_count = 0
    /\ current_lod = 0
    /\ obj_file = -1
    /\ temp_dir = {}
    /\ exported = [done |-> FALSE, mdl_file |-> "", current_lod |-> 0,
                   copied |-> [name |-> -1, mdl |-> "", lines |-> <<>>]]
    /\ disk = [path \in ViewerFiles |-> Disk(path)]
    /\ pc = "viewer"
    /\ file = <<>>
    /\ records = <<>>
    /\ lod_indices_arg = [none |-> TRUE, list |-> <<>>]
    /\ skip_binary = TRUE
    /\ f_open = FALSE
    /\ pos = 0
    /\ lod_count = 0
    /\ lod_indices = <<>>
    /\ i = 0
    /\ reads = <<>>
    /\ written = <<>>
    /\ err = "none"
    /\ diag = {}
    /\ geometry_data = <<>>
    /\ face_data = <<>>
    /\ mesh = NoMesh(0)

\* open_mdl_file: the dialog returns file_path ("" when it is cancelled)
open_mdl_file ==
    /\ pc = "viewer"
    /\ \E file_path \in ViewerFiles \cup {""} :
          IF file_path = "" THEN UNCHANGED viewerVars
          ELSE LET h == parse_header(disk[file_path], 0)
               IN  /\ mdl_file' = file_path
                   /\ UNCHANGED <<exported, disk>>
                   /\ IF ~h.ok
                      THEN UNCHANGED <<viewer_lod_count, current_lod, obj_file, temp_dir>>
                      ELSE /\ viewer_lod_count' = h.lod_count
                           /\ IF h.lod_count > 0
                              THEN SetLod(0, load_lod(file_path, 0, obj_file, temp_dir))
                              ELSE UNCHANGED <<current_lod, obj_file, temp_dir>>
    /\ UNCHANGED <<sessionVars, meshVars>>

\* change_lod(index): the combo box signals a new index
change_lod ==
    /\ pc = "viewer"
    /\ \E index \in -1..MaxLods :
          IF index >= 0 /\ index < viewer_lod_count
          THEN /\ SetLod(index, load_lod(mdl_file, index, obj_file, temp_dir))
               /\ UNCHANGED <<mdl_file, viewer_lod_count, exported, disk>>
          ELSE UNCHANGED viewerVars
    /\ UNCHANGED <<sessionVars, meshVars>>

\* export_obj_file: nothing without an existing self.obj_file; otherwise the
\* save dialog is accepted or cancelled, and the file is copied
export_obj_file ==
    /\ pc = "viewer"
    /\ IF obj_file = -1 \/ ~\E e \in temp_dir : e.name = obj_file
       THEN UNCHANGED viewerVars
       ELSE \E accepted \in BOOLEAN :
               IF ~accepted THEN UNCHANGED viewerVars
               ELSE /\ exported' = [done |-> TRUE, mdl_file |-> mdl_file,
                                    current_lod |-> current_lod,
                                    copied |-> CHOOSE e \in temp_dir : e.name = obj_file]
                    /\ UNCHANGED <<mdl_file, viewer_lod_count, current_lod, obj_file,
                                   temp_dir, disk>>
    /\ UNCHANGED <<sessionVars, meshVars>>

NextViewer == open_mdl_file \/ change_lod \/ export_obj_file

SpecViewer == InitViewer /\ [][NextViewer]_vars

----------------------------------------------------------------------------
(* Properties of the mesh decoders (checked under SpecMesh).               *)

\* the signed value of the little-endian 16-bit word at 0-based offset `off`
S16(data, off) ==
    LET u == data[off + 1] + 256 * data[off + 2]
    IN  IF u >= 32768 THEN u - 65536 ELSE u

\* the coordinate x is exactly v / 256
IsOver256(x, v) ==
    /\ x.frac8 % 390625 = 0
    /\ x.whole * 256 + x.frac8 \div 390625 = Abs(v)
    /\ x.neg = (v < 0)

\* C4: for decompressed geometry bytes of length L, extract_vertices returns
\* exactly floor((L - 4) / 16) vertices when L >= 4 and 0 vertices when L < 4.
C4_VertexCount ==
    mesh.done =>
        Len(mesh.vertices) = IF Len(geometry_data) >= 4
                             THEN (Len(geometry_data) - 4) \div 16 ELSE 0

\* C5: the i-th decoded vertex (from 0) takes x, y, z from the little-endian
\* signed 16-bit integers at byte offsets 4 + 16*i, 4 + 16*i + 2, 4 + 16*i + 4:
\* after the 4-byte prefix the records are consumed with a stride of 16 bytes.
C5_VertexStride16 ==
    mesh.done =>
        \A k \in 1..Len(mesh.vertices) :
            /\ 4 + 16 * (k - 1) + 6 <= Len(geometry_data)
            /\ \A c \in 1..3 :
                 IsOver256(mesh.vertices[k][c],
                           S16(geometry_data, 4 + 16 * (k - 1) + 2 * (c - 1)))

\* the 0-based offset at which extract_vertices takes component c of vertex k
SourceOffset(k, c) == 4 + vertex_size * (k - 1) + 2 * (c - 1)

\* C6: every decoded vertex component equals v / 256 for the signed 16-bit
\* little-endian value v of its two source bytes; 32767 decodes to 127.99609375
\* and -32768 to -128.0, without wrap-around or sign error.
C6_ScaleBy256 ==
    mesh.done =>
        \A k \in 1..Len(mesh.vertices) : \A c \in 1..3 :
            LET v == S16(geometry_data, SourceOffset(k, c))
                x == mesh.vertices[k][c]
            IN  /\ v \in -32768..32767
                /\ IsOver256(x, v)
                /\ v = 32767 => x = [neg |-> FALSE, whole |-> 127, frac8 |-> 99609375]
                /\ v = -32768 => x = [neg |-> TRUE, whole |-> 128, frac8 |-> 0]

\* C6 witness: a decoded vertex with a component from 32767 and one from -32768
C6_Witness ==
    /\ mesh.done
    /\ \E k \in 1..Len(mesh.vertices) :
          /\ \E c \in 1..3 : S16(geometry_data, SourceOffset(k, c)) = 32767
          /\ \E c \in 1..3 : S16(geometry_data, SourceOffset(k, c)) = -32768

\* the "f" lines of an OBJ file, in file order
FaceLines(lines) == SelectSeq(lines, LAMBDA l : l.tag = "f")

\* C7: each complete 6-byte record (a, b, c) of the face bytes is emitted as
\* the face line (a+1, b+1, c+1), in record order, nothing validated, clamped,
\* dropped or reordered, the + 1 applied exactly once.
C7_FaceRebase ==
    mesh.done =>
        LET fl == FaceLines(mesh.lines)
        IN  /\ Len(fl) = Len(face_data) \div 6
            /\ \A r \in 1..Len(fl) :
                 fl[r].n = <<S16(face_data, 6 * (r - 1)) + 1,
                             S16(face_data, 6 * (r - 1) + 2) + 1,
                             S16(face_data, 6 * (r - 1) + 4) + 1>>

\* C7 witness: a mesh with a negative face index and one beyond the vertices
C7_Witness ==
    /\ mesh.done
    /\ \E r \in 1..Len(FaceLines(mesh.lines)) :
          /\ S16(face_data, 6 * (r - 1)) = -1
          /\ FaceLines(mesh.lines)[r].n[1] = 0
          /\ S16(face_data, 6 * (r - 1) + 4) >= Len(mesh.vertices)
          /\ FaceLines(mesh.lines)[r].n[3] = 32768

----------------------------------------------------------------------------
(* Properties of the decode session (checked under Spec).                  *)

\* the header was decoded: parse_header returned
HeaderParsed == pc \in {"select", "loop", "done"} \/ (pc = "raised" /\ Len(file) >= 23)

\* lines 51-59 have run
SelectionMade ==
    pc \in {"loop", "done"} \/ (pc = "raised" /\ Len(file) >= 23)

\* a length-prefixed field of the read r declared more bytes than were left
Truncated(r) == \E k \in 1..Len(r.lens) : r.lens[k][1] > r.lens[k][2]

\* record number k (from 1) of the container is whole and well-formed
Intact(k) ==
    /\ k \in 1..Len(records)
    /\ records[k].end <= Len(file)
    /\ records[k].extra = 0

\* record number k (from 1) is intact and both its blobs decompress
Decodable(k) == Intact(k) /\ records[k].kind \in {"plain", "named"}

\* some output file was written by iteration number s of the loop
Emitted(s) == \E j \in 1..Len(written) : written[j].sel = s

\* C1: the mesh written as lod_k.obj is decoded from the k-th LOD record of
\* the container (0-based): a request for a single index k > 0 never emits the
\* content of record 0 under the name of LOD k.
C1_ObjFromOwnRecord ==
    \A j \in 1..Len(written) :
        written[j].kind = "obj" =>
            /\ written[j].lod_index + 1 \in 1..Len(records)
            /\ written[j].src = records[written[j].lod_index + 1].start

\* C2: when a length-prefixed field of a LOD record declares more bytes than
\* remain in the file, decoding fails and no output file is produced for that
\* record; a short read is never accepted as the field's value.  (The kind of
\* the error is left open here: any exception counts as the failure.)
C2_TruncationFails ==
    \A k \in 1..Len(reads) :
        Truncated(reads[k]) =>
            /\ pc = "raised"
            /\ err # "none"
            /\ ~Emitted(reads[k].sel)

\* C3: a record whose declared lengths are non-negative and fit (name n,
\* identifier m, count N >= 0, geometry g, faces f) advances the cursor by
\* exactly 102 + n + m + 4*N + g + f bytes, to the first byte of the next
\* record, so the i-th consecutive call has decoded the i-th record.
C3_CursorAdvance ==
    /\ \A k \in 1..Len(reads) :
         LET r == reads[k]
         IN  (r.ok /\ ~Truncated(r) /\ r.four_byte_value_count >= 0
                   /\ \A q \in 1..Len(r.lens) : r.lens[q][1] >= 0)
             => r.end - r.start = 102 + r.string_length + r.id_string_length
                                  + 4 * r.four_byte_value_count
                                  + r.compressed_geometry_data_len
                                  + r.compressed_face_data_len
    /\ \A k \in 1..Len(reads) :
         (\A q \in 1..k : Intact(q))
         => /\ reads[k].ok
            /\ reads[k].start = records[k].start
            /\ reads[k].end = records[k].end
            /\ reads[k].string_length = records[k].n
            /\ reads[k].id_string_length = records[k].m
            /\ reads[k].four_byte_value_count = records[k].cnt
            /\ reads[k].compressed_geometry_data_len = records[k].glen
            /\ reads[k].compressed_face_data_len = records[k].flen

\* C3 witness: two consecutive calls, the second on a record with a name, an
\* identifier and a trailing block of one 4-byte value
C3_Witness ==
    /\ Len(reads) = 2
    /\ reads[1].ok /\ reads[2].ok
    /\ ~Truncated(reads[2])
    /\ reads[2].string_length = 2
    /\ reads[2].id_string_length = 1
    /\ reads[2].four_byte_value_count = 1
    /\ reads[2].start = reads[1].end

\* the session ended on an output file that could not be opened for writing
WriteFailed == err = "OSError"

\* the session ended on a blob that failed to decompress
DecompressFailed == err = "MDLParseError: Failed to decompress data"

RECURSIVE InRange(_, _)
\* the entries k of the list q with 0 <= k < lc, in the order of q
InRange(q, lc) ==
    IF q = <<>> THEN <<>>
    ELSE IF Head(q) >= 0 /\ Head(q) < lc
    THEN <<Head(q)>> \o InRange(Tail(q), lc)
    ELSE InRange(Tail(q), lc)

InvalidSelection == err = "MDLParseError: No valid LOD indices specified"

\* C9: the effective selection is exactly the requested entries i with
\* 0 <= i < lod_count, in the requested order; out-of-range entries alone never
\* abort the session; it fails with the invalid-selection error if and only if
\* a selection was requested and no requested entry is in range.
C9_SelectionFilter ==
    SelectionMade =>
        /\ ~lod_indices_arg.none =>
              /\ lod_indices = InRange(lod_indices_arg.list, lod_count)
              /\ \A k \in 1..Len(reads) : reads[k].lod_index = lod_indices[k]
        /\ InvalidSelection <=>
              (~lod_indices_arg.none
                 /\ ~\E k \in 1..Len(lod_indices_arg.list) :
                        lod_indices_arg.list[k] \in 0..(lod_count - 1))
        /\ InvalidSelection => (reads = <<>> /\ written = <<>>)

\* C9 witness: -1, 0 requested on a file of 2 LODs: exactly LOD 0 is processed
C9_Witness ==
    /\ pc = "done"
    /\ lod_count = 2
    /\ lod_indices_arg = [none |-> FALSE, list |-> <<-1, 0>>]
    /\ lod_indices = <<0>>
    /\ Len(reads) = 1
    /\ \E j \in 1..Len(written) : written[j].kind = "obj" /\ written[j].lod_index = 0

\* C10: with lod_count = 0 in the header, the session reads zero LOD records
\* and writes no output file, whether or not a selection was requested.
C10_NoLodsNoOutput ==
    (HeaderParsed /\ lod_count = 0) => (reads = <<>> /\ written = <<>>)

\* C10 witness: a session on a header with lod_count = 0 that is followed by
\* a record has ended, with a selection requested
C10_Witness ==
    /\ pc = "raised"
    /\ Len(file) > 23
    /\ lod_count = 0
    /\ lod_indices_arg = [none |-> FALSE, list |-> <<0>>]
    /\ InvalidSelection

----------------------------------------------------------------------------
(* The end-to-end scenario and the layout of the OBJ file.                 *)

\* the scenario container: signature OBJ, lod_count = 1, one record with
\* N = 0 whose geometry is a 4-byte prefix, the triple (256, 512, -256) and
\* 10 filler bytes (GeoA) and whose faces are the 6 bytes of (0, 0, 0) (FaceA)
ScenarioFile == Container(OBJ_SIGNATURE, 1, <<"plain">>, "none").bytes

\* the OBJ files among the files written
ObjFiles == SelectSeq(written, LAMBDA w : w.kind = "obj")

\* the "v" lines of an OBJ file, in file order
VertexLines(lines) == SelectSeq(lines, LAMBDA l : l.tag = "v")

\* a coordinate as save_obj_file prints it: sign, integer part, 6 decimals
Decimal6(neg, whole, frac6) == [neg |-> neg, whole |-> whole, frac6 |-> frac6]

\* C11: the scenario container, decoded with no selection given and every
\* output file writable, produces lod_0.obj with exactly one vertex line
\* 'v 1.000000 2.000000 -1.000000' and exactly one face line 'f 1 1 1'.
C11_EndToEnd ==
    (pc \in {"done", "raised"} /\ lod_indices_arg.none /\ lod_count = 1
        /\ ~WriteFailed /\ file = ScenarioFile)
    => /\ pc = "done"
       /\ Len(ObjFiles) = 1
       /\ ObjFiles[1].lod_index = 0
       /\ VertexLines(ObjFiles[1].lines)
            = <<[tag |-> "v", n |-> <<Decimal6(FALSE, 1, 0), Decimal6(FALSE, 2, 0),
                                      Decimal6(TRUE, 1, 0)>>]>>
       /\ FaceLines(ObjFiles[1].lines) = <<[tag |-> "f", n |-> <<1, 1, 1>>]>>

\* C11 witness: the session on the scenario container has completed and
\* written lod_0.obj and the raw dump
C11_Witness ==
    /\ pc = "done"
    /\ lod_indices_arg.none
    /\ lod_count = 1
    /\ file = ScenarioFile
    /\ Len(written) = 2

\* C12: the OBJ written for LOD k from V decoded positions and F decoded
\* triangles is the comment header naming k and stating V and F, then exactly
\* V vertex lines in decoder order, then exactly F face lines in decoder
\* order: no face line precedes a vertex line, and the counts of the header
\* are the numbers of lines written.
C12_ObjLayout ==
    mesh.done =>
        LET V == Len(mesh.vertices)
            F == Len(mesh.faces)
        IN  /\ Len(mesh.lines) = 4 + V + F
            /\ mesh.lines[1] = [tag |-> "# OBJ file - LOD", n |-> <<mesh.lod_index>>]
            /\ mesh.lines[2] = [tag |-> "# Vertices:", n |-> <<V>>]
            /\ mesh.lines[3] = [tag |-> "# Faces:", n |-> <<F>>]
            /\ mesh.lines[4] = [tag |-> "", n |-> <<>>]
            /\ \A k \in 1..V :
                 /\ mesh.lines[4 + k].tag = "v"
                 /\ \A c \in 1..3 :
                      mesh.lines[4 + k].n[c] = Format6(mesh.vertices[k][c])
            /\ \A k \in 1..F :
                 mesh.lines[4 + V + k] = [tag |-> "f", n |-> mesh.faces[k]]

\* C12 witness: the OBJ of LOD 1 with two vertices and two faces
C12_Witness ==
    /\ mesh.done
    /\ mesh.lod_index = 1
    /\ Len(mesh.vertices) = 2
    /\ Len(mesh.faces) = 2

----------------------------------------------------------------------------
(* The header: its length and its lod_count.                               *)

\* C13: a header whose lod_count is negative or above 10000 is rejected: the
\* session fails before any LOD record is read and before any output file is
\* written; it neither completes nor enters the loop with that count.
C13_InsaneCountRejected ==
    (HeaderParsed /\ pc # "select" /\ (lod_count < 0 \/ lod_count > 10000))
    => (pc = "raised" /\ reads = <<>> /\ written = <<>>)

\* the signed 32-bit little-endian integer at 0-based offset `off`
S32(data, off) ==
    LET u == data[off + 1] + 256 * data[off + 2] + 65536 * data[off + 3]
        top == data[off + 4]
    IN  IF top >= 128 THEN u + 16777216 * (top - 256) ELSE u + 16777216 * top

\* C14: on a container of fewer than 23 bytes header decoding fails: no
\* lod_count is returned, no LOD record is read, nothing is written; on one
\* of at least 23 bytes parse_header consumes exactly 23 bytes (the first
\* record is read from offset 23) and lod_count is the signed 32-bit integer
\* at bytes 19..22.
C14_HeaderLength ==
    (pc # "start") =>
        IF Len(file) < 23
        THEN /\ pc = "raised"
             /\ err = "struct.error"
             /\ lod_count = 0
             /\ lod_indices = <<>>
             /\ reads = <<>>
             /\ written = <<>>
        ELSE /\ lod_count = S32(file, 19)
             /\ pc = "select" => pos = 23
             /\ reads # <<>> => reads[1].start = 23

\* C14 witness: the session on a file that ends inside the lod_count field
\* has failed
C14_Witness ==
    /\ pc = "raised"
    /\ Len(file) = 21
    /\ pos = 21

----------------------------------------------------------------------------
(* Errors, the file handle, diagnostics, and repeated indices.             *)

\* C15: once an exception is raised the session has halted: parse_mdl_file
\* has raised it to its caller and never reports completion; the failing
\* entry is the last one a record was read for; every output file was
\* written before the error; and no step of the session follows.
C15_FatalErrorHalts ==
    /\ [](err # "none" =>
            /\ pc = "raised"
            /\ Len(reads) <= i
            /\ \A k \in 1..Len(reads) : reads[k].sel <= i
            /\ \A j \in 1..Len(written) : written[j].sel <= i)
    /\ [][err = "none"]_vars

\* C15 witness: the first of two selected entries failed inside
\* read_lod_header, the second was never started
C15_Witness ==
    /\ pc = "raised"
    /\ err = "struct.error"
    /\ Len(lod_indices) = 2
    /\ i = 1
    /\ Len(reads) = 1

\* C16: the handle f is open from the header read until the last selected
\* LOD has been processed, and closed on every exit of the session: normal
\* completion, invalid selection, truncated header or record, failed
\* decompression, failed open of an output file.
C16_HandleClosed ==
    /\ pc \in {"select", "loop"} => f_open
    /\ pc \in {"done", "raised"} => ~f_open

\* C16 witness: the session ended on the raw dump that could not be opened,
\* after lod_0.obj was written, and the handle is closed
C16_Witness ==
    /\ pc = "raised"
    /\ WriteFailed
    /\ written # <<>>
    /\ ~f_open

\* the requested list has an entry outside [0, lod_count) and one inside it
PartlyValidSelection ==
    /\ ~lod_indices_arg.none
    /\ \E k \in 1..Len(lod_indices_arg.list) : ~ValidIndex(lod_indices_arg.list[k], lod_count)
    /\ \E k \in 1..Len(lod_indices_arg.list) : ValidIndex(lod_indices_arg.list[k], lod_count)

\* C17: whenever the requested selection has entries outside [0, lod_count)
\* and at least one inside it, the session surfaces a diagnostic noting the
\* discarded entries.
C17_DiscardDiagnostic ==
    (SelectionMade /\ PartlyValidSelection) => "Discarded LOD indices" \in diag

\* C18: in one session, whatever the requested selection, the number of LOD
\* records read never exceeds the header's lod_count, and each lod_k.obj is
\* written at most once.
C18_ReadsBounded ==
    /\ reads # <<>> => Len(reads) <= lod_count
    /\ \A a \in 1..Len(ObjFiles) : \A b \in 1..Len(ObjFiles) :
         ObjFiles[a].lod_index = ObjFiles[b].lod_index => a = b

----------------------------------------------------------------------------
(* The viewer (checked under SpecViewer).                                  *)

\* C19: whenever export_obj_file copies a file, that file is the OBJ
\* extracted from the currently set mdl_file at the current_lod used for the
\* suggested name; an OBJ of a file opened before is never exported under the
\* new file's name.
C19_ExportsCurrentModel ==
    exported.done =>
        /\ exported.copied.mdl = exported.mdl_file
        /\ exported.copied.name = exported.current_lod

====
